---- MODULE Spec2Model ----
(***************************************************************************)
(* Flash memory layout and raw flash write primitives of legacy/memory.h.  *)
(*                                                                         *)
(* The header fixes a layout at build time (the preprocessor evaluates the *)
(* standalone guard over FLASH_APP_START and picks FLASH_PTR by EMULATOR)  *)
(* and then offers two stores, flash_write32 and flash_write8, through     *)
(* FLASH_PTR.  The model has one step for the build and one per call.      *)
(*                                                                         *)
(* Numbers are the header's, written in decimal (0x08000000 = 134217728).  *)
(* All addresses and words used are below 2^31.                            *)
(***************************************************************************)
EXTENDS Integers, Sequences, FiniteSets

\* ------------------------------------------------------------------ bounds

\* Number of calls (writes and changes of emulator_flash_base) in one run.
MaxOps == 3

\* ------------------------------------------------------- layout constants

\* #define FLASH_ORIGIN 0x08000000
FLASH_ORIGIN == 134217728

\* #define FLASH_TOTAL_SIZE (1024 * 1024)
FLASH_TOTAL_SIZE == 1024 * 1024

\* The sector table of the layout comment, one row per sector 0..11
\* (index i + 1 holds sector i): first address, last address, size in KiB.
SectorFirstAddr ==
  << 134217728, 134234112, 134250496, 134266880, 134283264, 134348800,
     134479872, 134610944, 134742016, 134873088, 135004160, 135135232 >>

SectorLastAddr ==
  << 134234111, 134250495, 134266879, 134283263, 134348799, 134479871,
     134610943, 134742015, 134873087, 135004159, 135135231, 135266303 >>

SectorSizeKiB_Wrong == << 16, 16, 16, 16, 64, 128, 128, 128, 128, 128, 128, 64 >>

SectorSizeKiB == << 16, 16, 16, 16, 64, 128, 128, 128, 128, 128, 128, 128 >>

Sectors == 0 .. (Len(SectorSizeKiB) - 1)

SectorStart(i) == SectorFirstAddr[i + 1]
SectorEnd(i) == SectorLastAddr[i + 1]
SectorSize(i) == SectorSizeKiB[i + 1] * 1024

\* ------------------------------------------------------------------- state

VARIABLES
  EMULATOR,            \* the build flag of "#if EMULATOR"
  FLASH_APP_START,     \* the value the configuration gives FLASH_APP_START
  build,               \* "pending", "ok" (an image exists) or "error" (#error)
  emulator_flash_base, \* extern uint8_t *emulator_flash_base (0 when absent)
  mem,                 \* bytes stored so far, by the address the store used
  fault,               \* an access outside its contract has trapped
  ops,                 \* calls made so far
  last,                \* the latest call
  bases                \* every value emulator_flash_base has had, in order

vars == << EMULATOR, FLASH_APP_START, build, emulator_flash_base, mem, fault,
           ops, last, bases >>

\* #define FLASH_APP_LEN FLASH_TOTAL_SIZE
FLASH_APP_LEN_Wrong == FLASH_TOTAL_SIZE + 64 * 1024

FLASH_APP_LEN == FLASH_TOTAL_SIZE

\* #define FLASH_BOOT_START FLASH_ORIGIN / FLASH_BOOT_LEN 0x0000
FLASH_BOOT_START == FLASH_ORIGIN

FLASH_BOOT_LEN_Wrong == 32 * 1024

FLASH_BOOT_LEN == 0

\* #define FLASH_STORAGE_START FLASH_ORIGIN / FLASH_STORAGE_LEN 0x0000
FLASH_STORAGE_START == FLASH_ORIGIN
FLASH_STORAGE_LEN == 0

\* #define FLASH_FWHEADER_START FLASH_APP_START / FLASH_FWHEADER_LEN 0x0000
FLASH_FWHEADER_START == FLASH_APP_START
FLASH_FWHEADER_LEN == 0

FLASH_BOOT_SECTOR_FIRST == 0
FLASH_BOOT_SECTOR_LAST == 0
FLASH_STORAGE_SECTOR_FIRST == 0
FLASH_STORAGE_SECTOR_LAST == 0

FLASH_CODE_SECTOR_FIRST == 0

FLASH_CODE_SECTOR_LAST_Wrong == 11 - 1

FLASH_CODE_SECTOR_LAST == 11

\* Every (start, length) pair the header declares.
Regions ==
  [ app      |-> [start |-> FLASH_APP_START,      len |-> FLASH_APP_LEN],
    boot     |-> [start |-> FLASH_BOOT_START,     len |-> FLASH_BOOT_LEN],
    storage  |-> [start |-> FLASH_STORAGE_START,  len |-> FLASH_STORAGE_LEN],
    fwheader |-> [start |-> FLASH_FWHEADER_START, len |-> FLASH_FWHEADER_LEN] ]

\* ------------------------------------------------------------------ inputs

\* Values a configuration may give FLASH_APP_START: the header's own, and the
\* application offsets of a layout with a bootloader in sectors 0-1 or 0-3.
AppStartConfigs == { FLASH_ORIGIN, FLASH_ORIGIN + 32 * 1024, FLASH_ORIGIN + 64 * 1024 }

\* Places the emulation harness may put the 1 MiB buffer (0x10000000 and
\* 0x10200000: disjoint buffers).
Bases == { 268435456, 270532608 }

\* Flash addresses passed to the writes: the first bytes and words of flash,
\* the last word and byte, and the first address past the end.
Addrs ==
  { FLASH_ORIGIN, FLASH_ORIGIN + 1, FLASH_ORIGIN + 2, FLASH_ORIGIN + 4,
    FLASH_ORIGIN + FLASH_TOTAL_SIZE - 4, FLASH_ORIGIN + FLASH_TOTAL_SIZE - 1,
    FLASH_ORIGIN + FLASH_TOTAL_SIZE }

\* 0x12345678 and 0
Words == { 305419896, 0 }

\* 0xAB and 0xFF
Bytes == { 171, 255 }

\* --------------------------------------------------------- pure operators

\* #if FLASH_APP_START != 0x08000000 / #error: TRUE when the build goes on.
StandaloneGuard_Off(v) == TRUE

StandaloneGuard(v) == ~(v /= 134217728)

\* FLASH_PTR(x): emulator_flash_base + ((x) - FLASH_ORIGIN) under EMULATOR,
\* else the address itself.  x >= FLASH_ORIGIN for every x used, so the
\* unsigned subtraction does not wrap.
FLASH_PTR_NoRebase(x) ==
  IF EMULATOR THEN emulator_flash_base + x ELSE x

FLASH_PTR_Cached(x) ==
  IF EMULATOR THEN Head(bases) + (x - FLASH_ORIGIN) ELSE x

FLASH_PTR(x) ==
  IF EMULATOR THEN emulator_flash_base + (x - FLASH_ORIGIN) ELSE x

\* Byte k (0 = least significant) of a 32-bit word.
ByteOf(word, k) == (word \div (256 ^ k)) % 256

\* *(volatile uint32_t *)p = word: four bytes at p .. p+3, in the byte order
\* of the target (ARMv7-M, and the hosts the emulator is built for, store the
\* least significant byte first).
Store32_BigEndian(m, p, word) ==
  [q \in DOMAIN m \cup (p .. p + 3) |->
     IF q \in p .. p + 3 THEN ByteOf(word, 3 - (q - p)) ELSE m[q]]

Store32_Wide(m, p, word) ==
  [q \in DOMAIN m \cup (p .. p + 4) |->
     IF q \in p .. p + 3 THEN ByteOf(word, q - p)
     ELSE IF q = p + 4 THEN 0 ELSE m[q]]

Store32(m, p, word) ==
  [q \in DOMAIN m \cup (p .. p + 3) |->
     IF q \in p .. p + 3 THEN ByteOf(word, q - p) ELSE m[q]]

\* *(volatile uint8_t *)p = byte: one byte at p.
Store8_Half(m, p, byte) ==
  [q \in DOMAIN m \cup {p, p + 1} |->
     IF q = p THEN byte ELSE IF q = p + 1 THEN 0 ELSE m[q]]

Store8(m, p, byte) ==
  [q \in DOMAIN m \cup {p} |-> IF q = p THEN byte ELSE m[q]]

\* The contract of the writes: n bytes at addr lie in flash, addr aligned to n.
InFlash(addr, n) ==
  /\ addr >= FLASH_ORIGIN
  /\ addr + n <= FLASH_ORIGIN + FLASH_TOTAL_SIZE

Aligned(addr, n) == addr % n = 0

\* ----------------------------------------------------------------- actions

NoCall == [op |-> "none", addr |-> 0, val |-> 0, trapped |-> FALSE]

Init ==
  /\ EMULATOR \in BOOLEAN
  /\ FLASH_APP_START \in AppStartConfigs
  /\ build = "pending"
  /\ emulator_flash_base \in (IF EMULATOR THEN Bases ELSE {0})
  /\ mem = << >>
  /\ fault = FALSE
  /\ ops = 0
  /\ last = NoCall
  /\ bases = << emulator_flash_base >>

\* The preprocessor reaches the standalone guard.
Preprocess ==
  /\ build = "pending"
  /\ build' = IF StandaloneGuard(FLASH_APP_START) THEN "ok" ELSE "error"
  /\ UNCHANGED << EMULATOR, FLASH_APP_START, emulator_flash_base, mem, fault,
                  ops, last, bases >>

Running == build = "ok" /\ ~fault /\ ops < MaxOps

\* The harness moves the emulated flash buffer.
SetBase(b) ==
  /\ Running
  /\ EMULATOR
  /\ b /= emulator_flash_base
  /\ emulator_flash_base' = b
  /\ bases' = Append(bases, b)
  /\ ops' = ops + 1
  /\ last' = [op |-> "set_base", addr |-> 0, val |-> b, trapped |-> FALSE]
  /\ UNCHANGED << EMULATOR, FLASH_APP_START, build, mem, fault >>

\* static inline void flash_write32(uint32_t addr, uint32_t word).  Within the
\* contract the store happens; outside it (past the end of flash, or not word
\* aligned) the access is undefined: it is either carried out or it traps.
flash_write32(addr, word) ==
  /\ Running
  /\ ops' = ops + 1
  /\ \/ /\ mem' = Store32(mem, FLASH_PTR(addr), word)
        /\ fault' = fault
        /\ last' = [op |-> "flash_write32", addr |-> addr, val |-> word,
                    trapped |-> FALSE]
     \/ /\ ~(InFlash(addr, 4) /\ Aligned(addr, 4))
        /\ mem' = mem
        /\ fault' = TRUE
        /\ last' = [op |-> "flash_write32", addr |-> addr, val |-> word,
                    trapped |-> TRUE]
  /\ UNCHANGED << EMULATOR, FLASH_APP_START, build, emulator_flash_base, bases >>

\* static inline void flash_write8(uint32_t addr, uint8_t byte).
flash_write8(addr, byte) ==
  /\ Running
  /\ ops' = ops + 1
  /\ \/ /\ mem' = Store8(mem, FLASH_PTR(addr), byte)
        /\ fault' = fault
        /\ last' = [op |-> "flash_write8", addr |-> addr, val |-> byte,
                    trapped |-> FALSE]
     \/ /\ ~InFlash(addr, 1)
        /\ mem' = mem
        /\ fault' = TRUE
        /\ last' = [op |-> "flash_write8", addr |-> addr, val |-> byte,
                    trapped |-> TRUE]
  /\ UNCHANGED << EMULATOR, FLASH_APP_START, build, emulator_flash_base, bases >>

Next ==
  \/ Preprocess
  \/ \E b \in Bases : SetBase(b)
  \/ \E addr \in Addrs, word \in Words : flash_write32(addr, word)
  \/ \E addr \in Addrs, byte \in Bytes : flash_write8(addr, byte)

Spec == Init /\ [][Next]_vars

\* ------------------------------------------------------- reading the state

\* The byte stored at q, if any: << b >> or << >>.
Peek(m, q) == IF q \in DOMAIN m THEN << m[q] >> ELSE << >>

\* A 32-bit read at p on the target: *(volatile uint32_t *)p.
Load32(m, p) == m[p] + 256 * m[p + 1] + 65536 * m[p + 2] + 16777216 * m[p + 3]

RECURSIVE SumSizes(_)
SumSizes(i) == IF i < 0 THEN 0 ELSE SectorSize(i) + SumSizes(i - 1)

IsWrite(c) == c.op \in {"flash_write32", "flash_write8"}
Width(c) == IF c.op = "flash_write32" THEN 4 ELSE 1

\* A step that is a call of a write (ops counts every call).
WriteStep == ops' = ops + 1 /\ IsWrite(last')

\* The first and last address of every sector, and their neighbours.
BoundaryAddrs ==
  UNION { { SectorStart(i) - 1, SectorStart(i), SectorEnd(i), SectorEnd(i) + 1 } :
          i \in Sectors }

InCodeSectors(a) ==
  \E i \in FLASH_CODE_SECTOR_FIRST .. FLASH_CODE_SECTOR_LAST :
    SectorStart(i) <= a /\ a <= SectorEnd(i)

InRegion(r, a) == r.start <= a /\ a < r.start + r.len

\* ------------------------------------------------------------------ claims

\* C1: the 12 sectors (0-3 of 16 KiB, 4 of 64 KiB, 5-11 of 128 KiB) sum to
\* FLASH_TOTAL_SIZE and are contiguous: sector 0 starts at FLASH_ORIGIN, each
\* sector i+1 starts one past the end of sector i, and sector 11 ends at
\* FLASH_ORIGIN + FLASH_TOTAL_SIZE - 1; an address written in flash lies in
\* exactly one sector.
C1_SectorTable ==
  /\ Sectors = 0 .. 11
  /\ Len(SectorFirstAddr) = 12 /\ Len(SectorLastAddr) = 12
  /\ \A i \in 0 .. 3 : SectorSize(i) = 16 * 1024
  /\ SectorSize(4) = 64 * 1024
  /\ \A i \in 5 .. 11 : SectorSize(i) = 128 * 1024
  /\ SumSizes(11) = FLASH_TOTAL_SIZE
  /\ \A i \in Sectors : SectorEnd(i) - SectorStart(i) + 1 = SectorSize(i)
  /\ SectorStart(0) = FLASH_ORIGIN
  /\ \A i \in 0 .. 10 : SectorStart(i + 1) = SectorEnd(i) + 1
  /\ SectorEnd(11) = FLASH_ORIGIN + FLASH_TOTAL_SIZE - 1
  /\ (IsWrite(last) /\ InFlash(last.addr, 1)) =>
       Cardinality({ i \in Sectors :
                     SectorStart(i) <= last.addr /\ last.addr <= SectorEnd(i) }) = 1

\* A byte write lands on the last byte of sector 11, the last byte of flash.
C1_Witness ==
  /\ build = "ok"
  /\ last.op = "flash_write8" /\ ~last.trapped
  /\ last.addr = SectorEnd(11)
  /\ InFlash(last.addr, 1) /\ ~InFlash(last.addr + 1, 1)

\* C2: FLASH_APP_START equals FLASH_ORIGIN in every layout that is built; a
\* configuration with any other value is rejected by the guard and is never
\* used (no call is ever made on it).
C2_AppStartIsOrigin ==
  /\ build = "ok" => FLASH_APP_START = FLASH_ORIGIN
  /\ FLASH_APP_START /= FLASH_ORIGIN =>
       /\ build \in {"pending", "error"}
       /\ ops = 0 /\ mem = << >> /\ last = NoCall
  /\ build = "error" => FLASH_APP_START /= FLASH_ORIGIN

\* A configuration with a bootloader offset has been rejected.
C2_Witness ==
  /\ build = "error"
  /\ FLASH_APP_START = FLASH_ORIGIN + 32 * 1024

\* C3: FLASH_PTR(FLASH_ORIGIN) is emulator_flash_base in the emulated build
\* and the raw address in the direct build; a write at FLASH_ORIGIN stores
\* at that place.
C3_TranslateOrigin ==
  /\ EMULATOR => FLASH_PTR(FLASH_ORIGIN) = emulator_flash_base
  /\ ~EMULATOR => FLASH_PTR(FLASH_ORIGIN) = FLASH_ORIGIN
  /\ (last.op = "flash_write8" /\ last.addr = FLASH_ORIGIN /\ ~last.trapped) =>
       Peek(mem, IF EMULATOR THEN emulator_flash_base ELSE FLASH_ORIGIN)
         = << last.val >>

\* After a change of base, a byte written at FLASH_ORIGIN sits at the base.
C3_Witness ==
  /\ EMULATOR /\ Len(bases) >= 2
  /\ last.op = "flash_write8" /\ last.addr = FLASH_ORIGIN
  /\ Peek(mem, emulator_flash_base) = << last.val >>

\* C4: after flash_write32(addr, word) at a word-aligned address in flash, a
\* 32-bit read at addr gives word, and the byte at addr + k is bits
\* 8k .. 8k+7 of word (k in 0..3).
C4_Write32ReadBack ==
  (last.op = "flash_write32" /\ InFlash(last.addr, 4) /\ Aligned(last.addr, 4)) =>
    LET p == FLASH_PTR(last.addr) IN
      /\ ~last.trapped
      /\ (p .. p + 3) \subseteq DOMAIN mem
      /\ Load32(mem, p) = last.val
      /\ \A k \in 0 .. 3 : mem[p + k] = (last.val \div (2 ^ (8 * k))) % (2 ^ 8)

\* 0x12345678 has just been written: 0x78 at addr, 0x12 at addr + 3.
C4_Witness ==
  /\ last.op = "flash_write32" /\ last.val = 305419896
  /\ InFlash(last.addr, 4) /\ Aligned(last.addr, 4)
  /\ Peek(mem, FLASH_PTR(last.addr)) = << 120 >>
  /\ Peek(mem, FLASH_PTR(last.addr) + 3) = << 18 >>

\* C5: flash_write8(addr, byte) at an address in flash leaves byte at addr
\* and changes no other byte, in particular not those at addr-1 and addr+1.
C5_Write8Frame ==
  [][ (WriteStep /\ last'.op = "flash_write8" /\ InFlash(last'.addr, 1)) =>
        LET p == FLASH_PTR(last'.addr) IN
          /\ ~last'.trapped
          /\ Peek(mem', p) = << last'.val >>
          /\ \A q \in (DOMAIN mem \cup DOMAIN mem' \cup {p - 1, p + 1}) \ {p} :
               Peek(mem', q) = Peek(mem, q) ]_vars

\* A byte has been written between two bytes that hold other values.
C5_Witness ==
  /\ last.op = "flash_write8" /\ InFlash(last.addr, 1)
  /\ LET p == FLASH_PTR(last.addr) IN
       /\ {p - 1, p, p + 1} \subseteq DOMAIN mem
       /\ mem[p] = last.val
       /\ mem[p - 1] /= last.val /\ mem[p + 1] /= last.val

\* C6: the legacy boot and storage regions have length zero and start at
\* the flash origin.
C6_LegacyRegionsEmpty ==
  /\ FLASH_BOOT_LEN = 0 /\ FLASH_STORAGE_LEN = 0
  /\ FLASH_BOOT_START = FLASH_ORIGIN /\ FLASH_STORAGE_START = FLASH_ORIGIN
  /\ \A a \in BoundaryAddrs \cup Addrs :
       ~InRegion(Regions.boot, a) /\ ~InRegion(Regions.storage, a)

\* A word is written where the legacy regions start: it belongs to neither.
C6_Witness ==
  /\ build = "ok"
  /\ last.op = "flash_write32" /\ ~last.trapped
  /\ last.addr = FLASH_BOOT_START /\ last.addr = FLASH_STORAGE_START
  /\ ~InRegion(Regions.boot, last.addr) /\ ~InRegion(Regions.storage, last.addr)

\* C7: in a built layout every declared range (firmware, legacy boot, legacy
\* storage, firmware header) starts at or above FLASH_ORIGIN and ends at or
\* below FLASH_ORIGIN + FLASH_TOTAL_SIZE.
C7_RangesInFlash ==
  build = "ok" =>
    \A n \in DOMAIN Regions :
      /\ Regions[n].start >= FLASH_ORIGIN
      /\ Regions[n].start + Regions[n].len <= FLASH_ORIGIN + FLASH_TOTAL_SIZE

\* A built layout whose firmware range ends exactly at the end of flash.
C7_Witness ==
  /\ build = "ok" /\ ops = 0
  /\ Regions.app.start + Regions.app.len = FLASH_ORIGIN + FLASH_TOTAL_SIZE
  /\ Regions.fwheader.start = Regions.app.start

\* C8: in the emulated build every write that is carried out stores at
\* emulator_flash_base, as it is at that call, plus addr - FLASH_ORIGIN, and
\* leaves the same offset under every other base the pointer has had alone.
C8_TranslateAtCall ==
  [][ (EMULATOR /\ WriteStep /\ ~last'.trapped) =>
        LET c == last'
            at == emulator_flash_base + (c.addr - FLASH_ORIGIN)
            w == at .. at + Width(c) - 1
        IN
          /\ \A q \in w :
               Peek(mem', q) =
                 << IF c.op = "flash_write8" THEN c.val
                    ELSE (c.val \div (2 ^ (8 * (q - at)))) % (2 ^ 8) >>
          /\ \A q \in (DOMAIN mem \cup DOMAIN mem') \ w :
               Peek(mem', q) = Peek(mem, q)
          /\ \A i \in 1 .. Len(bases) :
               bases[i] /= emulator_flash_base =>
                 \A k \in 0 .. Width(c) - 1 :
                   LET old == bases[i] + (c.addr - FLASH_ORIGIN) + k IN
                     Peek(mem', old) = Peek(mem, old) ]_vars

\* The same address written before and after a change of base: the first
\* buffer keeps the first value, the second holds the second.
C8_Witness ==
  /\ EMULATOR /\ Len(bases) = 2
  /\ last.op = "flash_write8" /\ ~last.trapped /\ InFlash(last.addr, 1)
  /\ LET off == last.addr - FLASH_ORIGIN IN
       /\ Peek(mem, bases[2] + off) = << last.val >>
       /\ bases[1] + off \in DOMAIN mem
       /\ mem[bases[1] + off] /= last.val

\* C9: in a built layout the addresses of the code sectors
\* FLASH_CODE_SECTOR_FIRST .. FLASH_CODE_SECTOR_LAST are exactly
\* [FLASH_APP_START, FLASH_APP_START + FLASH_APP_LEN), which is
\* [FLASH_ORIGIN, FLASH_ORIGIN + FLASH_TOTAL_SIZE).
C9_CodeCoversFlash ==
  build = "ok" =>
    /\ FLASH_CODE_SECTOR_FIRST = 0 /\ FLASH_CODE_SECTOR_LAST = 11
    /\ SectorStart(FLASH_CODE_SECTOR_FIRST) = FLASH_APP_START
    /\ \A i \in FLASH_CODE_SECTOR_FIRST .. FLASH_CODE_SECTOR_LAST - 1 :
         SectorStart(i + 1) = SectorEnd(i) + 1
    /\ SectorEnd(FLASH_CODE_SECTOR_LAST) + 1 = FLASH_APP_START + FLASH_APP_LEN
    /\ FLASH_APP_START = FLASH_ORIGIN
    /\ FLASH_APP_START + FLASH_APP_LEN = FLASH_ORIGIN + FLASH_TOTAL_SIZE
    /\ \A a \in BoundaryAddrs \cup Addrs :
         /\ InCodeSectors(a) <=> InRegion(Regions.app, a)
         /\ InCodeSectors(a) <=> InFlash(a, 1)

\* A word is written into the last word of the last code sector.
C9_Witness ==
  /\ build = "ok"
  /\ last.op = "flash_write32" /\ ~last.trapped
  /\ last.addr + 3 = SectorEnd(FLASH_CODE_SECTOR_LAST)
  /\ InCodeSectors(last.addr) /\ InRegion(Regions.app, last.addr + 3)

\* C10: in the emulated build an address in flash translates to an offset in
\* [0, FLASH_TOTAL_SIZE), distinct addresses to distinct bytes of the buffer,
\* and flash_write32 at a word-aligned address in flash touches only the
\* offsets addr - FLASH_ORIGIN .. addr - FLASH_ORIGIN + 3, all in the buffer.
C10_InBuffer ==
  EMULATOR =>
    /\ \A a \in BoundaryAddrs \cup Addrs :
         InFlash(a, 1) =>
           /\ FLASH_PTR(a) - emulator_flash_base \in 0 .. FLASH_TOTAL_SIZE - 1
           /\ FLASH_PTR(a) - emulator_flash_base = a - FLASH_ORIGIN
    /\ \A a, b \in Addrs :
         (InFlash(a, 1) /\ InFlash(b, 1) /\ a /= b) => FLASH_PTR(a) /= FLASH_PTR(b)

C10_Step ==
  (EMULATOR /\ WriteStep /\ last'.op = "flash_write32"
     /\ InFlash(last'.addr, 4) /\ Aligned(last'.addr, 4)) =>
    LET off == last'.addr - FLASH_ORIGIN
        touched == { q \in DOMAIN mem \cup DOMAIN mem' : Peek(mem', q) /= Peek(mem, q) }
    IN
      /\ off + 3 < FLASH_TOTAL_SIZE
      /\ DOMAIN mem' \ DOMAIN mem \subseteq
           emulator_flash_base + off .. emulator_flash_base + off + 3
      /\ \A q \in touched :
           /\ q - emulator_flash_base \in off .. off + 3
           /\ q - emulator_flash_base \in 0 .. FLASH_TOTAL_SIZE - 1

\* C10: translation stays in the buffer and is injective in every state
\* (C10_InBuffer), and every aligned flash_write32 step in flash touches only
\* its own four offsets (C10_Step).
C10_EmulatedWritesInBuffer == [][ C10_InBuffer /\ C10_InBuffer' /\ C10_Step ]_vars

\* The last word of the buffer has been written, and nothing past its end.
C10_Witness ==
  /\ EMULATOR
  /\ last.op = "flash_write32" /\ ~last.trapped
  /\ last.addr = FLASH_ORIGIN + FLASH_TOTAL_SIZE - 4
  /\ emulator_flash_base + FLASH_TOTAL_SIZE - 1 \in DOMAIN mem
  /\ emulator_flash_base + FLASH_TOTAL_SIZE \notin DOMAIN mem

====
